---- MODULE Spec2Model ----
(***************************************************************************)
(* Dialogue orchestration of the emotion-regulation assistant              *)
(* (src/actions/actions.py): every custom action is a function of the      *)
(* tracker (slots + latest message) that emits messages and returns a      *)
(* list of events (SlotSet, Restarted, FollowupAction) which the host      *)
(* applies before it runs the follow-up action within the same turn.       *)
(*                                                                         *)
(* Python strings that are data (moods, reasons, message texts, riddle     *)
(* answers) are sequences of one-character strings, so that lower(),       *)
(* strip(), replace() and the regular expressions are computed on the      *)
(* characters.  Python None is the empty tuple None and a value v is       *)
(* Some(v) = <<v>>, so that None and the empty string "" stay distinct.    *)
(*                                                                         *)
(* The rephrase toggle (src/scripts/toggle_rephrase.py) rewrites the lines *)
(* of endpoints.yml; endpoints holds these lines.  The dialogue never      *)
(* touches them.                                                           *)
(***************************************************************************)
EXTENDS Integers, Sequences, FiniteSets, TLC

VARIABLES slots, msg, out, events, followup, chain, endpoints

vars == <<slots, msg, out, events, followup, chain, endpoints>>

None == << >>

Some(v) == <<v>>

IsNone(o) == Len(o) = 0

Val(o) == o[1]

(***************************************************************************)
(* String literals of the source.                                          *)
(***************************************************************************)
S_empty == <<>>

S_happy == <<"h", "a", "p", "p", "y">>

S_sad == <<"s", "a", "d">>

S_angry == <<"a", "n", "g", "r", "y">>

S_dont_know == <<"d", "o", "n", "t", "_", "k", "n", "o", "w">>

S_this_feeling == <<"t", "h", "i", "s", " ", "f", "e", "e", "l", "i", "n", "g">>

S_this_situation == <<"t", "h", "i", "s", " ", "s", "i", "t", "u", "a", "t", "i", "o", "n">>

S_miss == <<"m", "i", "s", "s">>

S_tired == <<"t", "i", "r", "e", "d">>

S_sleep == <<"s", "l", "e", "e", "p">>

S_school == <<"s", "c", "h", "o", "o", "l">>

S_home == <<"h", "o", "m", "e">>

S_routine == <<"r", "o", "u", "t", "i", "n", "e">>

S_change == <<"c", "h", "a", "n", "g", "e">>

S_frustrat == <<"f", "r", "u", "s", "t", "r", "a", "t">>

ReasonMapping ==
  << <<<<"t", "i", "r", "e", "d">>,
       <<"b", "e", "i", "n", "g", " ", "t", "i", "r", "e", "d">>>>,
     <<<<"m", "i", "s", "s", "i", "n", "g", "_", "s", "o", "m", "e", "o", "n", "e">>,
       <<"m", "i", "s", "s", "i", "n", "g", " ", "s", "o", "m", "e", "o", "n", "e">>>>,
     <<<<"c", "h", "a", "n", "g", "e", "_", "i", "n", "_", "r", "o", "u", "t", "i", "n", "e">>,
       <<"s", "o", "m", "e", "t", "h", "i", "n", "g", " ", "c", "h", "a", "n", "g", "e", "d", " ", "a", "t", " ", "h", "o", "m", "e">>>>,
     <<<<"w", "o", "r", "r", "y", "_", "s", "c", "h", "o", "o", "l">>,
       <<"w", "o", "r", "r", "y", "i", "n", "g", " ", "a", "b", "o", "u", "t", " ", "s", "c", "h", "o", "o", "l">>>>,
     <<<<"d", "o", "n", "t", "_", "k", "n", "o", "w">>,
       <<"n", "o", "t", " ", "s", "u", "r", "e">>>>,
     <<<<"f", "r", "u", "s", "t", "r", "a", "t", "i", "o", "n">>,
       <<"f", "e", "e", "l", "i", "n", "g", " ", "f", "r", "u", "s", "t", "r", "a", "t", "e", "d">>>>,
     <<<<"s", "o", "m", "e", "o", "n", "e", "_", "b", "o", "t", "h", "e", "r", "e", "d", "_", "m", "e">>,
       <<"s", "o", "m", "e", "o", "n", "e", " ", "u", "p", "s", "e", "t", " ", "y", "o", "u">>>>,
     <<<<"f", "e", "e", "l", "i", "n", "g", "_", "i", "g", "n", "o", "r", "e", "d">>,
       <<"f", "e", "e", "l", "i", "n", "g", " ", "i", "g", "n", "o", "r", "e", "d">>>>,
     <<<<"o", "v", "e", "r", "s", "t", "i", "m", "u", "l", "a", "t", "i", "o", "n">>,
       <<"a", " ", "n", "o", "i", "s", "y", " ", "o", "r", " ", "o", "v", "e", "r", "w", "h", "e", "l", "m", "i", "n", "g", " ", "p", "l", "a", "c", "e">>>> >>

stop_words ==
  { <<"a">>,
    <<"a", "n">>,
    <<"t", "h", "e">>,
    <<"m", "y">>,
    <<"y", "o", "u", "r">>,
    <<"e", "v", "e", "r", "y", "o", "n", "e">>,
    <<"e", "v", "e", "r", "y", "b", "o", "d", "y">>,
    <<"h", "a", "s">>,
    <<"h", "a", "v", "e">>,
    <<"o", "n", "e">>,
    <<"i", "s">>,
    <<"a", "r", "e">>,
    <<"i", "t", "s">>,
    <<"i", "t", "'", "s">>,
    <<"t", "o">>,
    <<"o", "f">> }

(***************************************************************************)
(* Python string operations used by the actions.                           *)
(***************************************************************************)
ascii_uppercase ==
  <<"A", "B", "C", "D", "E", "F", "G", "H", "I", "J", "K", "L", "M",
    "N", "O", "P", "Q", "R", "S", "T", "U", "V", "W", "X", "Y", "Z">>

ascii_lowercase ==
  <<"a", "b", "c", "d", "e", "f", "g", "h", "i", "j", "k", "l", "m",
    "n", "o", "p", "q", "r", "s", "t", "u", "v", "w", "x", "y", "z">>

digits == {"0", "1", "2", "3", "4", "5", "6", "7", "8", "9"}

whitespace == {" ", "\t", "\n"}

LowerChar(c) ==
  IF \E i \in DOMAIN ascii_uppercase : ascii_uppercase[i] = c
  THEN ascii_lowercase[CHOOSE i \in DOMAIN ascii_uppercase : ascii_uppercase[i] = c]
  ELSE c

lower(s) == [i \in 1..Len(s) |-> LowerChar(s[i])]

\* the character class [a-z0-9] of the riddle regular expressions
IsAlnum(c) == c \in {ascii_lowercase[i] : i \in DOMAIN ascii_lowercase} \cup digits

RECURSIVE lstrip(_)
lstrip(s) == IF s # << >> /\ Head(s) \in whitespace THEN lstrip(Tail(s)) ELSE s

RECURSIVE rstrip(_)
rstrip(s) ==
  IF s # << >> /\ s[Len(s)] \in whitespace THEN rstrip(SubSeq(s, 1, Len(s) - 1)) ELSE s

strip(s) == rstrip(lstrip(s))

\* str.replace("_", " ")
replace_underscore(s) == [i \in 1..Len(s) |-> IF s[i] = "_" THEN " " ELSE s[i]]

startswith(s, p) == Len(s) >= Len(p) /\ SubSeq(s, 1, Len(p)) = p

\* p in s
contains(s, p) == \E i \in 0..(Len(s) - Len(p)) : SubSeq(s, i + 1, i + Len(p)) = p

(***************************************************************************)
(* Python truthiness of a slot value, by the type the slot holds.          *)
(***************************************************************************)
TruthyText(o) == ~IsNone(o) /\ Val(o) # << >>

TruthyBool(o) == ~IsNone(o) /\ Val(o) = TRUE

TruthyToken(o) == ~IsNone(o)

(***************************************************************************)
(* The tracker: the slots the actions read and write, and the latest       *)
(* inbound message {intent, text, entities}.                               *)
(***************************************************************************)
SlotNames ==
  {"mood", "last_mood", "reason", "reason_detail", "expect_free_reason",
   "support_stage", "support_completed", "reframe_stage",
   "riddle_question", "riddle_answer", "riddle_attempts",
   "riddle_trigger_text", "guess"}

EmptySlots == [k \in SlotNames |-> None]

EmptyMessage == [intent |-> None, text |-> S_empty, entities |-> << >>]

\* events an action returns
SlotSet(k, v) == [type |-> "slot", key |-> k, value |-> v]

FollowupAction(name) == [type |-> "followup", key |-> name, value |-> None]

Restarted == [type |-> "restart", key |-> "", value |-> None]

\* messages an action emits through the dispatcher
Response(name) == [kind |-> "response", id |-> name, n |-> 0, s |-> << >>]

Text(name) == [kind |-> "text", id |-> name, n |-> 0, s |-> << >>]

TextWith(name, num, str) == [kind |-> "text", id |-> name, n |-> num, s |-> str]

Result(o, e) == [out |-> o, events |-> e]

Intent(m) == m.intent

_has_user_text(m) == strip(m.text) # << >>

(***************************************************************************)
(* ActionHandleSupportFlow: the four-stage supportive dialogue.            *)
(***************************************************************************)
MoodIntents == {"mood_happy", "mood_sad", "mood_angry"}

mood_map(intent) ==
  CASE intent = "mood_happy" -> S_happy
    [] intent = "mood_sad" -> S_sad
    [] intent = "mood_angry" -> S_angry

\* a mutation of SupportResume: the mood slots are left to the resolver
SupportResume_keepsMood(m) ==
  Result(<< >>,
         <<SlotSet("support_stage", None),
           SlotSet("reason", None),
           SlotSet("support_completed", None),
           FollowupAction("action_start_reflect_flow")>>)

\* a new mood was selected after completion: hand off to the reflect flow
SupportResume(m) ==
  Result(<< >>,
         <<SlotSet("support_stage", None),
           SlotSet("reason", None),
           SlotSet("support_completed", None),
           SlotSet("mood", Some(mood_map(Val(m.intent)))),
           SlotSet("last_mood", Some(mood_map(Val(m.intent)))),
           FollowupAction("action_start_reflect_flow")>>)

\* a mutation of SupportStart: the dialogue starts without a reason
SupportStart_unchecked(s) ==
  Result(<<Response("utter_stage_common_ground"),
           Response("utter_stage_continue_question")>>,
         <<SlotSet("support_stage", Some("common_ground"))>>)

\* no stage set: start with common ground, unless there is no reason
SupportStart(s) ==
  IF ~TruthyText(s["reason"])
  THEN Result(<< >>, << >>)
  ELSE Result(<<Response("utter_stage_common_ground"),
                Response("utter_stage_continue_question")>>,
              <<SlotSet("support_stage", Some("common_ground"))>>)

\* a mutation of SupportReplay: the replay falls back to the first stage
SupportReplay_restarts(stage) ==
  Result(<<Response("utter_stage_common_ground"),
           Response("utter_stage_continue_question")>>,
         <<SlotSet("support_stage", Some("common_ground"))>>)

\* a stage is set and the intent is neither affirm nor deny: replay the stage
SupportReplay(stage) ==
  Result((CASE stage = "common_ground" -> <<Response("utter_stage_common_ground")>>
            [] stage = "acceptance" -> <<Response("utter_stage_acceptance")>>
            [] stage = "analysis" -> <<Response("utter_stage_analysis")>>
            [] stage = "nuance" -> <<Response("utter_stage_nuance")>>
            [] OTHER -> << >>)
         \o <<Response("utter_stage_continue_question")>>,
         <<SlotSet("support_stage", Some(stage))>>)

SupportCommonGround(m) ==
  IF m.intent = Some("affirm")
  THEN Result(<<Response("utter_stage_acceptance"),
                Response("utter_stage_continue_question")>>,
              <<SlotSet("support_stage", Some("acceptance"))>>)
  ELSE IF m.intent = Some("deny")
  THEN Result(<<Text("pause_common_ground")>>,
              <<SlotSet("support_stage", None), SlotSet("reason", None)>>)
  ELSE Result(<< >>, << >>)

\* a mutation of SupportAcceptance: affirm skips the analysis stage
SupportAcceptance_skips(m) ==
  IF m.intent = Some("affirm")
  THEN Result(<<Response("utter_stage_nuance"),
                Response("utter_stage_continue_question")>>,
              <<SlotSet("support_stage", Some("nuance"))>>)
  ELSE IF m.intent = Some("deny")
  THEN Result(<<Text("pause_acceptance")>>,
              <<SlotSet("support_stage", None), SlotSet("reason", None)>>)
  ELSE Result(<< >>, << >>)

SupportAcceptance(m) ==
  IF m.intent = Some("affirm")
  THEN Result(<<Response("utter_stage_analysis"),
                Response("utter_stage_continue_question")>>,
              <<SlotSet("support_stage", Some("analysis"))>>)
  ELSE IF m.intent = Some("deny")
  THEN Result(<<Text("pause_acceptance")>>,
              <<SlotSet("support_stage", None), SlotSet("reason", None)>>)
  ELSE Result(<< >>, << >>)

SupportAnalysis(m) ==
  IF m.intent = Some("affirm")
  THEN Result(<<Response("utter_stage_nuance"),
                Response("utter_stage_continue_question")>>,
              <<SlotSet("support_stage", Some("nuance"))>>)
  ELSE IF m.intent = Some("deny")
  THEN Result(<<Text("pause_analysis")>>,
              <<SlotSet("support_stage", None), SlotSet("reason", None)>>)
  ELSE Result(<< >>, << >>)

\* a mutation of SupportNuance: deny clears last_mood and keeps mood
SupportNuance_keepsMood(m) ==
  IF m.intent = Some("affirm")
  THEN Result(<<Response("utter_support_done_check_mood")>>,
              <<SlotSet("support_stage", None),
                SlotSet("reason", None),
                SlotSet("support_completed", Some(TRUE))>>)
  ELSE IF m.intent = Some("deny")
  THEN Result(<<Text("pause_nuance")>>,
              <<SlotSet("support_stage", None), SlotSet("reason", None),
                SlotSet("last_mood", None)>>)
  ELSE Result(<< >>, << >>)

SupportNuance(m) ==
  IF m.intent = Some("affirm")
  THEN Result(<<Response("utter_support_done_check_mood")>>,
              <<SlotSet("support_stage", None),
                SlotSet("reason", None),
                SlotSet("support_completed", Some(TRUE))>>)
  ELSE IF m.intent = Some("deny")
  THEN Result(<<Text("pause_nuance")>>,
              <<SlotSet("support_stage", None), SlotSet("reason", None),
                SlotSet("last_mood", None), SlotSet("mood", None)>>)
  ELSE Result(<< >>, << >>)

HandleSupportFlow_run(s, m) ==
  IF ~_has_user_text(m) THEN Result(<< >>, << >>)
  ELSE IF TruthyBool(s["support_completed"])
          /\ ~IsNone(m.intent) /\ Val(m.intent) \in MoodIntents
  THEN SupportResume(m)
  ELSE IF ~TruthyToken(s["support_stage"]) THEN SupportStart(s)
  ELSE IF m.intent \notin {Some("affirm"), Some("deny")}
  THEN SupportReplay(Val(s["support_stage"]))
  ELSE CASE Val(s["support_stage"]) = "common_ground" -> SupportCommonGround(m)
         [] Val(s["support_stage"]) = "acceptance" -> SupportAcceptance(m)
         [] Val(s["support_stage"]) = "analysis" -> SupportAnalysis(m)
         [] Val(s["support_stage"]) = "nuance" -> SupportNuance(m)
         [] OTHER -> Result(<< >>, << >>)

(***************************************************************************)
(* ActionStartReflectFlow: the mood resolver.                              *)
(***************************************************************************)
RecognizedMoods == {S_happy, S_sad, S_angry}

utter_mapping(k) ==
  CASE k = S_happy -> "utter_reflect_mood_happy"
    [] k = S_sad -> "utter_reflect_mood_sad"
    [] k = S_angry -> "utter_reflect_mood_angry"

followup_mapping(k) ==
  CASE k = S_happy -> "utter_followup_mood_happy"
    [] k = S_sad -> "utter_followup_mood_sad"
    [] k = S_angry -> "utter_followup_mood_angry"

\* a mutation of ReflectMoodKey: a slot that holds no recognized mood gives
\* way to the intent
ReflectMoodKey_recognizedFirst(s, m) ==
  LET slot_key == IF IsNone(s["mood"]) THEN None ELSE Some(lower(Val(s["mood"])))
  IN IF ~IsNone(slot_key) /\ Val(slot_key) \in RecognizedMoods THEN slot_key
     ELSE IF ~IsNone(m.intent) /\ Val(m.intent) \in MoodIntents
          THEN Some(mood_map(Val(m.intent)))
          ELSE slot_key

\* the mood key: the lower-cased slot, else the mood named by the intent
ReflectMoodKey(s, m) ==
  LET slot_key == IF IsNone(s["mood"]) THEN None ELSE Some(lower(Val(s["mood"])))
  IN IF TruthyText(slot_key) THEN slot_key
     ELSE IF ~IsNone(m.intent) /\ Val(m.intent) \in MoodIntents
          THEN Some(mood_map(Val(m.intent)))
          ELSE slot_key

\* a mutation of WhyUpset: only a sad mood is asked for its reason
WhyUpset_sadOnly(k) ==
  IF k = S_sad
  THEN <<Response("utter_reason_why_you_feel_upset_question")>>
  ELSE << >>

WhyUpset(k) ==
  IF k \in {S_sad, S_angry}
  THEN <<Response("utter_reason_why_you_feel_upset_question")>>
  ELSE << >>

\* a mutation of ReflectFollowup: support_completed is left as it was
ReflectFollowup_keepsCompleted(k) ==
  Result(<<Response(followup_mapping(k))>> \o WhyUpset(k),
         <<SlotSet("mood", Some(k)),
           SlotSet("last_mood", Some(k))>>)

ReflectFollowup(k) ==
  Result(<<Response(followup_mapping(k))>> \o WhyUpset(k),
         <<SlotSet("support_completed", None),
           SlotSet("mood", Some(k)),
           SlotSet("last_mood", Some(k))>>)

\* a mutation of ReflectFirstTime: the intro is followed by a re-dispatch
ReflectFirstTime_redispatches(k) ==
  Result(<<Response(utter_mapping(k))>> \o WhyUpset(k),
         <<SlotSet("mood", Some(k)), SlotSet("last_mood", Some(k)),
           FollowupAction("action_get_stored_mood")>>)

ReflectFirstTime(k) ==
  Result(<<Response(utter_mapping(k))>> \o WhyUpset(k),
         <<SlotSet("mood", Some(k)), SlotSet("last_mood", Some(k))>>)

StartReflectFlow_run(s, m) ==
  IF ~_has_user_text(m) THEN Result(<< >>, << >>)
  ELSE LET mood_key == ReflectMoodKey(s, m)
           known == ~IsNone(mood_key) /\ Val(mood_key) \in RecognizedMoods
       IN IF TruthyBool(s["support_completed"]) /\ known
          THEN ReflectFollowup(Val(mood_key))
          ELSE IF known THEN ReflectFirstTime(Val(mood_key))
          ELSE Result(<<Text("clarify_mood")>>, << >>)

(***************************************************************************)
(* ActionHandleReasonResponse: "do you know what made you feel upset?"     *)
(***************************************************************************)
\* a mutation of HandleReasonResponse_run: deny leaves expect_free_reason
HandleReasonResponse_run_denyKeeps(s, m) ==
  IF ~_has_user_text(m) THEN Result(<< >>, << >>)
  ELSE IF m.intent = Some("deny")
  THEN Result(<<Response("utter_acknowledge_uneasy_feeling"),
                IF s["mood"] = Some(S_sad)
                THEN Response("utter_overview_common_reasons_sad")
                ELSE IF s["mood"] = Some(S_angry)
                THEN Response("utter_overview_common_reasons_angry")
                ELSE Response("utter_overview_common_reasons_sad")>>,
              << >>)
  ELSE IF m.intent = Some("affirm")
  THEN Result(<<Response("utter_ask_reason_after_affirm")>>,
              <<SlotSet("expect_free_reason", Some(TRUE))>>)
  ELSE Result(<< >>, << >>)

HandleReasonResponse_run(s, m) ==
  IF ~_has_user_text(m) THEN Result(<< >>, << >>)
  ELSE IF m.intent = Some("deny")
  THEN Result(<<Response("utter_acknowledge_uneasy_feeling"),
                IF s["mood"] = Some(S_sad)
                THEN Response("utter_overview_common_reasons_sad")
                ELSE IF s["mood"] = Some(S_angry)
                THEN Response("utter_overview_common_reasons_angry")
                ELSE Response("utter_overview_common_reasons_sad")>>,
              <<SlotSet("expect_free_reason", None)>>)
  ELSE IF m.intent = Some("affirm")
  THEN Result(<<Response("utter_ask_reason_after_affirm")>>,
              <<SlotSet("expect_free_reason", Some(TRUE))>>)
  ELSE Result(<< >>, << >>)

(***************************************************************************)
(* ActionHandlePickReason: reason capture.                                 *)
(***************************************************************************)
_normalize_reason(reason) ==
  IF \E i \in DOMAIN ReasonMapping : ReasonMapping[i][1] = reason
  THEN ReasonMapping[CHOOSE i \in DOMAIN ReasonMapping : ReasonMapping[i][1] = reason][2]
  ELSE replace_underscore(reason)

\* the value of the first entity of type "reason"
RECURSIVE FirstReasonEntity(_)
FirstReasonEntity(entities) ==
  IF entities = << >> THEN None
  ELSE IF Head(entities).entity = "reason" THEN Some(Head(entities).value)
  ELSE FirstReasonEntity(Tail(entities))

\* extraction priority: the reason slot, a reason entity, the free text
ExtractReason(s, m) ==
  LET from_slot == s["reason"]
      entity == FirstReasonEntity(m.entities)
      from_entity ==
        IF ~TruthyText(from_slot) /\ ~IsNone(entity) THEN entity ELSE from_slot
      text_reason == strip(m.text)
  IN IF ~TruthyText(from_entity) /\ TruthyBool(s["expect_free_reason"])
        /\ text_reason # << >> /\ m.intent \notin {Some("affirm"), Some("deny")}
     THEN Some(text_reason)
     ELSE from_entity

\* a mutation of PickReasonUnknown: the mood is cleared with the reason
PickReasonUnknown_clearsMood ==
  Result(<<Response("utter_reason_unknown_exercise"),
           Response("utter_reason_unknown_ask_later")>>,
         <<SlotSet("reason", None),
           SlotSet("support_stage", None),
           SlotSet("expect_free_reason", None),
           SlotSet("mood", None)>>)

PickReasonUnknown ==
  Result(<<Response("utter_reason_unknown_exercise"),
           Response("utter_reason_unknown_ask_later")>>,
         <<SlotSet("reason", None),
           SlotSet("support_stage", None),
           SlotSet("expect_free_reason", None)>>)

\* a mutation of PickReasonAccept: the follow-up is the support dialogue
PickReasonAccept_toSupport(reason) ==
  Result(<< >>,
         <<SlotSet("reason", Some(_normalize_reason(reason))),
           SlotSet("expect_free_reason", None),
           FollowupAction("action_handle_support_flow")>>)

PickReasonAccept(reason) ==
  Result(<< >>,
         <<SlotSet("reason", Some(_normalize_reason(reason))),
           SlotSet("expect_free_reason", None),
           FollowupAction("action_handle_reframe_flow")>>)

\* a mutation of HandlePickReason_run: the gate is left out
HandlePickReason_run_ungated(s, m) ==
  IF ~_has_user_text(m) THEN Result(<< >>, << >>)
  ELSE LET reason == ExtractReason(s, m)
       IN IF reason = Some(S_dont_know) THEN PickReasonUnknown
          ELSE IF TruthyText(reason) THEN PickReasonAccept(Val(reason))
          ELSE Result(<< >>, << >>)

HandlePickReason_run(s, m) ==
  IF ~_has_user_text(m) THEN Result(<< >>, << >>)
  ELSE IF ~TruthyBool(s["expect_free_reason"]) /\ m.intent # Some("pick_reason")
  THEN Result(<< >>, << >>)
  ELSE LET reason == ExtractReason(s, m)
       IN IF reason = Some(S_dont_know) THEN PickReasonUnknown
          ELSE IF TruthyText(reason) THEN PickReasonAccept(Val(reason))
          ELSE Result(<< >>, << >>)

(***************************************************************************)
(* ActionHandleReframeFlow: the reframe loop.  The generated text comes    *)
(* from an external model; gen is the outcome of that call.                *)
(***************************************************************************)
GenOutcomes == {"fallback", "text"}

_suggest_activity(reason) ==
  LET r_lower == lower(reason)
  IN IF contains(r_lower, S_miss) THEN "suggest_missing_someone"
     ELSE IF contains(r_lower, S_tired) \/ contains(r_lower, S_sleep)
     THEN "suggest_body_reset"
     ELSE IF contains(r_lower, S_school) THEN "suggest_school"
     ELSE IF contains(r_lower, S_home) \/ contains(r_lower, S_routine)
             \/ contains(r_lower, S_change)
     THEN "suggest_home_anchor"
     ELSE IF contains(r_lower, S_angry) \/ contains(r_lower, S_frustrat)
     THEN "suggest_anger"
     ELSE "suggest_grounding"

_clean_detail(user_text, detail_slot, reason) ==
  LET candidate == IF TruthyText(detail_slot) THEN Val(detail_slot)
                   ELSE IF user_text # << >> THEN user_text
                   ELSE reason
      text == strip(candidate)
  IN IF startswith(text, <<"/">>) THEN replace_underscore(reason)
     ELSE replace_underscore(text)

_generate_reframe_text(reason, detail, gen) ==
  IF gen = "text"
  THEN TextWith("llm_reframe", 0, reason \o <<"|">> \o (IF detail # << >> THEN detail ELSE reason))
  ELSE Text(_suggest_activity(reason))

\* step 1, no stage set: immediate reframe
ReframeUnset(user_text, detail_slot, reason, gen) ==
  LET detail == _clean_detail(user_text, detail_slot, reason)
  IN Result(<<_generate_reframe_text(reason, detail, gen),
              Response("utter_stage_continue_question")>>,
            <<SlotSet("reframe_stage", Some("wrap")),
              SlotSet("reason_detail", Some(detail))>>)

\* a mutation of ReframeReframe: the stored detail is not looked at
ReframeReframe_ignoresDetail(user_text, detail_slot, reason, gen) ==
  LET detail == _clean_detail(user_text, None, reason)
  IN Result(<<_generate_reframe_text(reason, detail, gen),
              Response("utter_stage_continue_question")>>,
            <<SlotSet("reframe_stage", Some("wrap")),
              SlotSet("reason_detail", Some(detail))>>)

\* step 2, stage "reframe": reflect and reframe
ReframeReframe(user_text, detail_slot, reason, gen) ==
  LET detail == _clean_detail(user_text, detail_slot, reason)
  IN Result(<<_generate_reframe_text(reason, detail, gen),
              Response("utter_stage_continue_question")>>,
            <<SlotSet("reframe_stage", Some("wrap")),
              SlotSet("reason_detail", Some(detail))>>)

\* step 3, stage "wrap": wrap up, try another angle, or loop on new detail

\* a mutation of ReframeWrap: deny ends the loop as affirm does
ReframeWrap_denyEnds(m, user_text, detail_slot, reason, gen) ==
  IF m.intent \in {Some("affirm"), Some("deny")}
  THEN Result(<<Response("utter_support_done")>>,
              <<SlotSet("reframe_stage", None), SlotSet("reason_detail", None)>>)
  ELSE IF user_text # << >>
  THEN Result(<< >>,
              <<SlotSet("reason_detail",
                        Some(_clean_detail(user_text, detail_slot, reason))),
                SlotSet("reframe_stage", Some("reframe")),
                FollowupAction("action_handle_reframe_flow")>>)
  ELSE Result(<<Response("utter_stage_continue_question")>>, << >>)

ReframeWrap(m, user_text, detail_slot, reason, gen) ==
  IF m.intent = Some("affirm")
  THEN Result(<<Response("utter_support_done")>>,
              <<SlotSet("reframe_stage", None), SlotSet("reason_detail", None)>>)
  ELSE IF m.intent = Some("deny")
  THEN LET detail == _clean_detail(user_text, detail_slot, reason)
       IN Result(<<Text("another_angle"),
                   _generate_reframe_text(reason, detail, gen),
                   Response("utter_stage_continue_question")>>,
                 <<SlotSet("reframe_stage", Some("wrap")),
                   SlotSet("reason_detail", Some(detail))>>)
  ELSE IF user_text # << >>
  THEN Result(<< >>,
              <<SlotSet("reason_detail",
                        Some(_clean_detail(user_text, detail_slot, reason))),
                SlotSet("reframe_stage", Some("reframe")),
                FollowupAction("action_handle_reframe_flow")>>)
  ELSE Result(<<Response("utter_stage_continue_question")>>, << >>)

HandleReframeFlow_run(s, m, gen) ==
  LET stage == s["reframe_stage"]
      reason == IF TruthyText(s["reason"]) THEN Val(s["reason"]) ELSE S_this_situation
      user_text == strip(m.text)
      detail_slot == s["reason_detail"]
  IN IF ~TruthyToken(stage) THEN ReframeUnset(user_text, detail_slot, reason, gen)
     ELSE IF stage = Some("reframe")
     THEN ReframeReframe(user_text, detail_slot, reason, gen)
     ELSE IF stage = Some("wrap")
     THEN ReframeWrap(m, user_text, detail_slot, reason, gen)
     ELSE Result(<< >>, << >>)

(***************************************************************************)
(* ActionGetStoredMood and ActionRestartConversation.                      *)
(***************************************************************************)
GetStoredMood_run(s, m) ==
  IF ~_has_user_text(m) THEN Result(<< >>, << >>)
  ELSE IF TruthyText(s["last_mood"])
  THEN Result(<<TextWith("stored_mood", 0, Val(s["last_mood"]))>>, << >>)
  ELSE Result(<<Text("no_stored_mood")>>, << >>)

\* a mutation of RestartConversation_run: the text guard is left out
RestartConversation_run_unguarded(s, m) ==
  Result(<<Response("utter_restart_ok")>>,
         <<Restarted, FollowupAction("action_start_reflect_flow")>>)

RestartConversation_run(s, m) ==
  IF ~_has_user_text(m) THEN Result(<< >>, << >>)
  ELSE Result(<<Response("utter_restart_ok")>>,
              <<Restarted, FollowupAction("action_start_reflect_flow")>>)

(***************************************************************************)
(* The riddle session: ActionFetchRiddle, ValidateRiddleForm and           *)
(* ActionResetRiddle.                                                      *)
(***************************************************************************)
_normalize_riddle_text(text) ==
  IF text = << >> THEN << >> ELSE SelectSeq(strip(lower(text)), IsAlnum)

\* re.findall(r"[a-z0-9]+", text): the maximal runs of [a-z0-9], left to right
RECURSIVE FindAllAlnum(_, _)
FindAllAlnum(text, run) ==
  IF text = << >> THEN (IF run = << >> THEN << >> ELSE <<run>>)
  ELSE IF IsAlnum(Head(text)) THEN FindAllAlnum(Tail(text), Append(run, Head(text)))
  ELSE (IF run = << >> THEN << >> ELSE <<run>>) \o FindAllAlnum(Tail(text), << >>)

_tokenize_riddle_text(text) ==
  IF text = << >> THEN << >> ELSE FindAllAlnum(lower(text), << >>)

NotStopWord(token) == token \notin stop_words

ToSet(list) == {list[i] : i \in DOMAIN list}

exact_match(value, answer) ==
  /\ _normalize_riddle_text(value) # << >>
  /\ _normalize_riddle_text(answer) # << >>
  /\ _normalize_riddle_text(value) = _normalize_riddle_text(answer)

substring_match(value, answer) ==
  /\ _normalize_riddle_text(value) # << >>
  /\ _normalize_riddle_text(answer) # << >>
  /\ \/ contains(_normalize_riddle_text(answer), _normalize_riddle_text(value))
     \/ contains(_normalize_riddle_text(value), _normalize_riddle_text(answer))

\* a mutation of core_match: the core tokens must agree in their order
core_match_ordered(value, answer) ==
  LET user_core == SelectSeq(_tokenize_riddle_text(value), NotStopWord)
      answer_core == SelectSeq(_tokenize_riddle_text(answer), NotStopWord)
  IN /\ user_core # << >>
     /\ answer_core # << >>
     /\ user_core = answer_core

core_match(value, answer) ==
  LET user_core == SelectSeq(_tokenize_riddle_text(value), NotStopWord)
      answer_core == SelectSeq(_tokenize_riddle_text(answer), NotStopWord)
  IN /\ user_core # << >>
     /\ answer_core # << >>
     /\ (user_core = answer_core \/ ToSet(user_core) = ToSet(answer_core))

GuessIsCorrect(value, answer) ==
  exact_match(value, answer) \/ substring_match(value, answer)
    \/ core_match(value, answer)

\* the attempt budget of validate_guess
RiddleBudget == 3

S_try == <<"t", "r", "y">>

S_tries == <<"t", "r", "i", "e", "s">>

GuessIgnored == Result(<< >>, <<SlotSet("guess", None)>>)

GuessCorrect(value, attempts) ==
  Result(<<Text("riddle_correct")>>,
         <<SlotSet("guess", Some(value)),
           SlotSet("riddle_attempts", Some(attempts)),
           SlotSet("riddle_trigger_text", None)>>)

\* a mutation of GuessRetry: the remaining tries are counted one too many
GuessRetry_offByOne(attempts) ==
  LET tries_left == RiddleBudget - attempts + 1
  IN Result(<<TextWith("riddle_retry", tries_left,
                       IF tries_left = 1 THEN S_try ELSE S_tries)>>,
            <<SlotSet("guess", None), SlotSet("riddle_attempts", Some(attempts))>>)

GuessRetry(attempts) ==
  LET tries_left == RiddleBudget - attempts
  IN Result(<<TextWith("riddle_retry", tries_left,
                       IF tries_left = 1 THEN S_try ELSE S_tries)>>,
            <<SlotSet("guess", None), SlotSet("riddle_attempts", Some(attempts))>>)

\* a mutation of GuessReveal: the trigger text is left in place
GuessReveal_keepsTrigger(value, attempts, answer) ==
  Result(<<TextWith("riddle_reveal", 0, answer)>>,
         <<SlotSet("guess", Some(value)),
           SlotSet("riddle_attempts", Some(attempts))>>)

GuessReveal(value, attempts, answer) ==
  Result(<<TextWith("riddle_reveal", 0, answer)>>,
         <<SlotSet("guess", Some(value)),
           SlotSet("riddle_attempts", Some(attempts)),
           SlotSet("riddle_trigger_text", None)>>)

\* a mutation of GuessIsIgnored: the trigger text counts as a guess
GuessIsIgnored_blankOnly(value, trigger_text) == strip(value) = << >>

\* a blank guess, or the text that started the game, is not a guess
GuessIsIgnored(value, trigger_text) ==
  IF strip(value) = << >> THEN TRUE
  ELSE trigger_text # << >> /\ strip(value) = trigger_text

validate_guess(value, s) ==
  LET trigger_text ==
        strip(IF TruthyText(s["riddle_trigger_text"])
              THEN Val(s["riddle_trigger_text"]) ELSE S_empty)
      answer == IF TruthyText(s["riddle_answer"]) THEN Val(s["riddle_answer"]) ELSE S_empty
      attempts ==
        (IF IsNone(s["riddle_attempts"]) THEN 0 ELSE Val(s["riddle_attempts"])) + 1
  IN IF GuessIsIgnored(value, trigger_text) THEN GuessIgnored
     ELSE IF GuessIsCorrect(value, answer) THEN GuessCorrect(value, attempts)
     ELSE IF attempts < RiddleBudget THEN GuessRetry(attempts)
     ELSE GuessReveal(value, attempts, answer)

\* what the riddle service call produced: no API key on the server, a request
\* error, a payload that is empty or no list, a list whose first element is
\* no mapping, or a list whose first element has the given question and
\* answer (None when the field is missing)
FetchFailure(kind) == [kind |-> kind, question |-> None, answer |-> None]

FetchPayload(q, a) == [kind |-> "payload", question |-> q, answer |-> a]

FetchRiddle_run(s, m, fetched) ==
  IF fetched.kind = "no_key" THEN Result(<<Text("riddle_key_missing")>>, << >>)
  ELSE IF fetched.kind = "unreachable"
  THEN Result(<<Text("riddle_unreachable")>>, << >>)
  ELSE IF fetched.kind = "invalid" THEN Result(<<Text("riddle_invalid")>>, << >>)
  \* riddle.get on a first element that is no mapping raises AttributeError:
  \* the run ends without an utterance and without events
  ELSE IF fetched.kind = "not_a_record" THEN Result(<< >>, << >>)
  ELSE IF ~TruthyText(fetched.question) \/ ~TruthyText(fetched.answer)
  THEN Result(<<Text("riddle_incomplete")>>, << >>)
  ELSE Result(<<TextWith("riddle_question", 0, Val(fetched.question))>>,
              <<SlotSet("riddle_question", fetched.question),
                SlotSet("riddle_answer", fetched.answer),
                SlotSet("riddle_attempts", Some(0)),
                SlotSet("guess", None),
                SlotSet("riddle_trigger_text", Some(m.text))>>)

ResetRiddle_run ==
  Result(<< >>,
         <<SlotSet("riddle_question", None),
           SlotSet("riddle_answer", None),
           SlotSet("riddle_attempts", None),
           SlotSet("guess", None),
           SlotSet("riddle_trigger_text", None)>>)

(***************************************************************************)
(* The host turn loop: it takes one user message, runs an action, applies  *)
(* the returned events in order, runs the follow-up action, if one was     *)
(* returned, on the same latest message, and then returns to the user.     *)
(***************************************************************************)
RECURSIVE ApplyEvents(_, _)
ApplyEvents(s, es) ==
  IF es = << >> THEN s
  ELSE LET e == Head(es)
           s1 == CASE e.type = "slot" -> [s EXCEPT ![e.key] = e.value]
                   [] e.type = "restart" -> EmptySlots
                   [] OTHER -> s
       IN ApplyEvents(s1, Tail(es))

RECURSIVE FollowupOf(_)
FollowupOf(es) ==
  IF es = << >> THEN None
  ELSE LET rest == FollowupOf(Tail(es))
       IN IF ~IsNone(rest) THEN rest
          ELSE IF Head(es).type = "followup" THEN Some(Head(es).key) ELSE None

\* the action `name` is the one to run: any action on a new turn, the named
\* one when the previous action of this turn asked for a follow-up
Dispatched(name) == IF chain = << >> THEN TRUE ELSE followup = Some(name)

\* a new turn takes a new message, a follow-up runs on the same message
Latest(m) == IF chain = << >> THEN TRUE ELSE m = msg

Step(name, r, m) ==
  /\ slots' = ApplyEvents(slots, r.events)
  /\ msg' = m
  /\ out' = r.out
  /\ events' = r.events
  /\ followup' = FollowupOf(r.events)
  /\ chain' = Append(chain, name)
  /\ UNCHANGED endpoints

\* the turn is over: the messages are delivered and the next message awaited
ReturnToUser ==
  /\ chain # << >>
  /\ followup = None
  /\ msg' = EmptyMessage
  /\ out' = << >>
  /\ events' = << >>
  /\ chain' = << >>
  /\ UNCHANGED <<slots, followup, endpoints>>

(***************************************************************************)
(* Inbound messages of the mood dialogue.                                  *)
(***************************************************************************)
Intents ==
  {Some("affirm"), Some("deny"), Some("mood_happy"), Some("mood_sad"),
   Some("pick_reason"), Some("nlu_fallback")}

S_my_dog == <<"m", "y", "_", "d", "o", "g">>

Texts == {S_empty, S_my_dog}

Entity(name, v) == [entity |-> name, value |-> v]

EntityLists ==
  {<< >>,
   <<Entity("reason", S_tired)>>,
   <<Entity("topic", S_school), Entity("reason", S_dont_know)>>}

Messages == [intent : Intents, text : Texts, entities : EntityLists]

ActionStartReflectFlow ==
  /\ Dispatched("action_start_reflect_flow")
  /\ \E m \in Messages :
       /\ Latest(m)
       /\ Step("action_start_reflect_flow", StartReflectFlow_run(slots, m), m)

ActionHandleReasonResponse ==
  /\ Dispatched("action_handle_reason_response")
  /\ \E m \in Messages :
       /\ Latest(m)
       /\ Step("action_handle_reason_response", HandleReasonResponse_run(slots, m), m)

ActionHandlePickReason ==
  /\ Dispatched("action_handle_pick_reason")
  /\ \E m \in Messages :
       /\ Latest(m)
       /\ Step("action_handle_pick_reason", HandlePickReason_run(slots, m), m)

ActionHandleSupportFlow ==
  /\ Dispatched("action_handle_support_flow")
  /\ \E m \in Messages :
       /\ Latest(m)
       /\ Step("action_handle_support_flow", HandleSupportFlow_run(slots, m), m)

ActionHandleReframeFlow ==
  /\ Dispatched("action_handle_reframe_flow")
  /\ \E m \in Messages, gen \in GenOutcomes :
       /\ Latest(m)
       /\ Step("action_handle_reframe_flow", HandleReframeFlow_run(slots, m, gen), m)

ActionGetStoredMood ==
  /\ Dispatched("action_get_stored_mood")
  /\ \E m \in Messages :
       /\ Latest(m)
       /\ Step("action_get_stored_mood", GetStoredMood_run(slots, m), m)

ActionRestartConversation ==
  /\ Dispatched("action_restart_conversation")
  /\ \E m \in Messages :
       /\ Latest(m)
       /\ Step("action_restart_conversation", RestartConversation_run(slots, m), m)

Init ==
  /\ slots = EmptySlots
  /\ msg = EmptyMessage
  /\ out = << >>
  /\ events = << >>
  /\ followup = None
  /\ chain = << >>
  /\ endpoints = << >>

Next ==
  \/ ActionStartReflectFlow
  \/ ActionHandleReasonResponse
  \/ ActionHandlePickReason
  \/ ActionHandleSupportFlow
  \/ ActionHandleReframeFlow
  \/ ActionGetStoredMood
  \/ ActionRestartConversation
  \/ ReturnToUser

Spec == Init /\ [][Next]_vars

(***************************************************************************)
(* The riddle mini-game, which is independent of the mood dialogue.        *)
(***************************************************************************)
MaxAttempts == 5

S_riddle == <<"r", "i", "d", "d", "l", "e">>

S_question == <<"W", "h", "a", "t", "?">>

S_A_towel == <<"A", " ", "t", "o", "w", "e", "l">>

S_towel == <<"t", "o", "w", "e", "l">>

S_soap == <<"s", "o", "a", "p">>

S_blank == <<" ">>

RiddleTexts == {S_blank, S_riddle, S_towel, S_soap}

RiddleMessages ==
  [intent : {Some("play_riddle"), Some("nlu_fallback")}, text : RiddleTexts,
   entities : {<< >>}]

FetchOutcomes ==
  {FetchFailure("no_key"), FetchFailure("unreachable"), FetchFailure("invalid"),
   FetchFailure("not_a_record"),
   FetchPayload(Some(S_question), None), FetchPayload(None, Some(S_A_towel)),
   FetchPayload(Some(S_question), Some(S_A_towel))}

ActionFetchRiddle ==
  /\ Dispatched("action_fetch_riddle")
  /\ \E m \in RiddleMessages, fetched \in FetchOutcomes :
       /\ Latest(m)
       /\ Step("action_fetch_riddle", FetchRiddle_run(slots, m, fetched), m)

\* the guess under validation is the text of the message
ValidateRiddleForm ==
  /\ Dispatched("validate_riddle_form")
  /\ (IF IsNone(slots["riddle_attempts"]) THEN 0 ELSE Val(slots["riddle_attempts"]))
       < MaxAttempts
  /\ \E m \in RiddleMessages :
       /\ Latest(m)
       /\ Step("validate_riddle_form", validate_guess(m.text, slots), m)

ActionResetRiddle ==
  /\ Dispatched("action_reset_riddle")
  /\ \E m \in RiddleMessages :
       /\ Latest(m)
       /\ Step("action_reset_riddle", ResetRiddle_run, m)

NextRiddle ==
  \/ ActionFetchRiddle
  \/ ValidateRiddleForm
  \/ ActionResetRiddle
  \/ ReturnToUser

RiddleSpec == Init /\ [][NextRiddle]_vars

S_being_tired == <<"b", "e", "i", "n", "g", " ", "t", "i", "r", "e", "d">>

(***************************************************************************)
(* Single steps on drawn inputs.  The slots a step reads are filled by the *)
(* host from the language understanding as well as by the steps, so the    *)
(* initial slots are drawn from the values those slots can hold, and the   *)
(* messages carry every intent and text shape a step distinguishes.        *)
(***************************************************************************)
S_Sad == <<"S", "a", "d">>

S_bored == <<"b", "o", "r", "e", "d">>

S_slash_go == <<"/", "g", "o">>

S_at_work == <<"a", "t", "_", "w", "o", "r", "k">>

MoodInputs == {None, Some(S_empty), Some(S_happy), Some(S_Sad), Some(S_bored)}

ResolverMessages ==
  [intent : Intents \cup {None, Some("mood_angry")},
   text : {S_empty, S_blank, S_my_dog},
   entities : {<< >>}]

StartReflectFlowStep ==
  /\ Dispatched("action_start_reflect_flow")
  /\ \E m \in ResolverMessages :
       /\ Latest(m)
       /\ Step("action_start_reflect_flow", StartReflectFlow_run(slots, m), m)

HandleSupportFlowStep ==
  /\ Dispatched("action_handle_support_flow")
  /\ \E m \in ResolverMessages :
       /\ Latest(m)
       /\ Step("action_handle_support_flow", HandleSupportFlow_run(slots, m), m)

InitResolver ==
  /\ \E mood \in MoodInputs, last \in {None, Some(S_happy)},
        completed \in {None, Some(FALSE), Some(TRUE)},
        stage \in {None, Some("nuance")} :
       slots = [EmptySlots EXCEPT !["mood"] = mood,
                                  !["last_mood"] = last,
                                  !["support_completed"] = completed,
                                  !["support_stage"] = stage,
                                  !["reason"] = IF IsNone(stage) THEN None
                                                ELSE Some(S_being_tired)]
  /\ msg = EmptyMessage
  /\ out = << >>
  /\ events = << >>
  /\ followup = None
  /\ chain = << >>
  /\ endpoints = << >>

NextResolver ==
  \/ StartReflectFlowStep
  \/ HandleSupportFlowStep
  \/ ReturnToUser

ResolverSpec == InitResolver /\ [][NextResolver]_vars

CaptureMessages ==
  [intent : {None, Some("affirm"), Some("deny"), Some("pick_reason"),
             Some("nlu_fallback")},
   text : {S_empty, S_blank, S_my_dog, S_slash_go},
   entities : EntityLists]

HandleReasonResponseStep ==
  /\ Dispatched("action_handle_reason_response")
  /\ \E m \in CaptureMessages :
       /\ Latest(m)
       /\ Step("action_handle_reason_response", HandleReasonResponse_run(slots, m), m)

HandlePickReasonStep ==
  /\ Dispatched("action_handle_pick_reason")
  /\ \E m \in CaptureMessages :
       /\ Latest(m)
       /\ Step("action_handle_pick_reason", HandlePickReason_run(slots, m), m)

HandleReframeFlowStep ==
  /\ Dispatched("action_handle_reframe_flow")
  /\ \E m \in CaptureMessages, gen \in GenOutcomes :
       /\ Latest(m)
       /\ Step("action_handle_reframe_flow", HandleReframeFlow_run(slots, m, gen), m)

\* a turn never starts in the reframe stage "reframe": the step that sets
\* it re-dispatches at once to the step that leaves it
InitCapture ==
  /\ \E expect \in {None, Some(TRUE)},
        reason \in {None, Some(S_being_tired), Some(S_dont_know)},
        stage \in {None, Some("common_ground")},
        mood \in {None, Some(S_sad)},
        reframe \in {None, Some("wrap")},
        detail \in {None, Some(S_at_work)} :
       slots = [EmptySlots EXCEPT !["expect_free_reason"] = expect,
                                  !["reason"] = reason,
                                  !["support_stage"] = stage,
                                  !["mood"] = mood,
                                  !["last_mood"] = mood,
                                  !["reframe_stage"] = reframe,
                                  !["reason_detail"] = detail]
  /\ msg = EmptyMessage
  /\ out = << >>
  /\ events = << >>
  /\ followup = None
  /\ chain = << >>
  /\ endpoints = << >>

NextCapture ==
  \/ HandleReasonResponseStep
  \/ HandlePickReasonStep
  \/ HandleReframeFlowStep
  \/ ReturnToUser

CaptureSpec == InitCapture /\ [][NextCapture]_vars

(***************************************************************************)
(* The two steps that call an external service, on drawn inputs: a riddle  *)
(* may be in progress and the reframe loop may be in wrap.                 *)
(***************************************************************************)
InitCollaborator ==
  /\ \E riddle \in BOOLEAN, reframe \in {None, Some("wrap")},
        reason \in {None, Some(S_being_tired)},
        detail \in {None, Some(S_at_work)} :
       slots = [EmptySlots EXCEPT
                  !["riddle_question"] = IF riddle THEN Some(S_question) ELSE None,
                  !["riddle_answer"] = IF riddle THEN Some(S_soap) ELSE None,
                  !["riddle_attempts"] = IF riddle THEN Some(1) ELSE None,
                  !["riddle_trigger_text"] = IF riddle THEN Some(S_riddle) ELSE None,
                  !["reframe_stage"] = reframe,
                  !["reason"] = reason,
                  !["reason_detail"] = detail]
  /\ msg = EmptyMessage
  /\ out = << >>
  /\ events = << >>
  /\ followup = None
  /\ chain = << >>
  /\ endpoints = << >>

NextCollaborator ==
  \/ ActionFetchRiddle
  \/ HandleReframeFlowStep
  \/ ReturnToUser

CollaboratorSpec == InitCollaborator /\ [][NextCollaborator]_vars

(***************************************************************************)
(* Guess validation on drawn inputs: stored answers and guesses over a     *)
(* small alphabet of letters, blanks and punctuation.                      *)
(***************************************************************************)
S_the == <<"t", "h", "e">>

S_an == <<"a", "n">>

S_punct == <<"?", "!">>

S_Towel_bang == <<"T", "o", "w", "e", "l", "!">>

S_tow == <<"t", "o", "w">>

S_hot_dog == <<"h", "o", "t", " ", "d", "o", "g">>

S_dog_hot == <<"d", "o", "g", " ", "h", "o", "t">>

MatcherAnswers == {None, Some(S_A_towel), Some(S_hot_dog), Some(S_the)}

MatcherGuesses ==
  {S_blank, S_riddle, S_towel, S_Towel_bang, S_tow, S_soap, S_dog_hot, S_an,
   S_punct}

MatcherMessages ==
  [intent : {Some("nlu_fallback")}, text : MatcherGuesses, entities : {<< >>}]

\* the guess under validation is the text of the message
ValidateGuessStep ==
  /\ Dispatched("validate_riddle_form")
  /\ (IF IsNone(slots["riddle_attempts"]) THEN 0 ELSE Val(slots["riddle_attempts"]))
       < MaxAttempts
  /\ \E m \in MatcherMessages :
       /\ Latest(m)
       /\ Step("validate_riddle_form", validate_guess(m.text, slots), m)

InitMatcher ==
  /\ \E answer \in MatcherAnswers, attempts \in {Some(0), Some(1), Some(2)},
        trigger \in {None, Some(S_riddle)} :
       slots = [EmptySlots EXCEPT
                  !["riddle_question"] = IF IsNone(answer) THEN None ELSE Some(S_question),
                  !["riddle_answer"] = answer,
                  !["riddle_attempts"] = IF IsNone(answer) THEN None ELSE attempts,
                  !["riddle_trigger_text"] = trigger]
  /\ msg = EmptyMessage
  /\ out = << >>
  /\ events = << >>
  /\ followup = None
  /\ chain = << >>
  /\ endpoints = << >>

NextMatcher ==
  \/ ValidateGuessStep
  \/ ReturnToUser

MatcherSpec == InitMatcher /\ [][NextMatcher]_vars

(***************************************************************************)
(* The rephrase toggle: _remove_nlg_block, _insert_nlg_block and main.     *)
(* Lines are strings; the loops of the source are the recursive operators  *)
(* below, with idx counting from 1.                                        *)
(***************************************************************************)
L_nlg == <<"n", "l", "g", ":">>

L_type_rephrase == <<" ", " ", "t", "y", "p", "e", ":", " ", "r", "e", "p", "h", "r", "a", "s", "e">>

L_llm == <<" ", " ", "l", "l", "m", ":">>

L_model_group == <<" ", " ", " ", " ", "m", "o", "d", "e", "l", "_", "g", "r", "o", "u", "p", ":", " ">>

L_action_endpoint == <<"a", "c", "t", "i", "o", "n", "_", "e", "n", "d", "p", "o", "i", "n", "t", ":">>

L_url == <<" ", " ", "u", "r", "l", ":", " ", "x">>

L_tracker_store == <<"t", "r", "a", "c", "k", "e", "r", "_", "s", "t", "o", "r", "e", ":">>

L_space == <<" ">>

model_group == <<"g", "e", "m", "i", "n", "i", "_", "c", "o", "m", "m", "a", "n", "d", "_", "g", "e", "n", "e", "r", "a", "t", "i", "o", "n", "_", "m", "o", "d", "e", "l">>

nlg_block(group) ==
  <<L_nlg, L_type_rephrase, L_llm, L_model_group \o group, S_empty>>

\* the inner loop of _remove_nlg_block: skip indented and blank lines
RECURSIVE SkipNlgBlock(_, _)
SkipNlgBlock(lines, idx) ==
  IF idx <= Len(lines)
     /\ (startswith(lines[idx], <<" ", " ">>) \/ strip(lines[idx]) = << >>)
  THEN SkipNlgBlock(lines, idx + 1)
  ELSE idx

RECURSIVE RemoveLoop(_, _, _)
RemoveLoop(lines, idx, new_lines) ==
  IF idx > Len(lines) THEN new_lines
  ELSE IF startswith(lines[idx], L_nlg)
  THEN RemoveLoop(lines, SkipNlgBlock(lines, idx + 1), new_lines)
  ELSE RemoveLoop(lines, idx + 1, Append(new_lines, lines[idx]))

_remove_nlg_block(lines) == RemoveLoop(lines, 1, << >>)

\* the inner loop of _insert_nlg_block: copy the lines of the
\* action_endpoint block; the line that ends the block is copied too, and
\* idx is left on it
RECURSIVE CopyEndpointBlock(_, _, _)
CopyEndpointBlock(lines, idx, new_lines) ==
  IF idx > Len(lines) THEN [idx |-> idx, new_lines |-> new_lines]
  ELSE IF ~startswith(lines[idx], <<" ", " ">>)
  THEN [idx |-> idx, new_lines |-> Append(new_lines, lines[idx])]
  ELSE CopyEndpointBlock(lines, idx + 1, Append(new_lines, lines[idx]))

RECURSIVE InsertLoop(_, _, _, _, _)
InsertLoop(lines, idx, new_lines, inserted, block) ==
  IF idx > Len(lines)
  THEN [new_lines |-> new_lines, inserted |-> inserted]
  ELSE IF ~inserted /\ startswith(lines[idx], L_action_endpoint)
  THEN LET copied == CopyEndpointBlock(lines, idx + 1, Append(new_lines, lines[idx]))
       IN InsertLoop(lines, copied.idx, copied.new_lines \o block, TRUE, block)
  ELSE InsertLoop(lines, idx + 1, Append(new_lines, lines[idx]), inserted, block)

_insert_nlg_block(lines, group) ==
  LET done == InsertLoop(lines, 1, << >>, FALSE, nlg_block(group))
  IN IF ~done.inserted THEN nlg_block(group) \o done.new_lines
     ELSE done.new_lines

\* the lines main writes back, for the flag read from .env
toggle(lines, enabled) ==
  IF enabled THEN _insert_nlg_block(_remove_nlg_block(lines), model_group)
  ELSE _remove_nlg_block(lines)

MaxLines == 3

MaxFileLines == 12

EndpointLines ==
  {L_nlg, L_type_rephrase, S_empty, L_space, L_action_endpoint, L_url,
   L_tracker_store}

EndpointFiles == UNION {[1..n -> EndpointLines] : n \in 0..MaxLines}

main ==
  /\ Len(endpoints) <= MaxFileLines
  /\ \E enabled \in BOOLEAN : endpoints' = toggle(endpoints, enabled)
  /\ UNCHANGED <<slots, msg, out, events, followup, chain>>

InitToggle ==
  /\ endpoints \in EndpointFiles
  /\ slots = EmptySlots
  /\ msg = EmptyMessage
  /\ out = << >>
  /\ events = << >>
  /\ followup = None
  /\ chain = << >>

NextToggle == main

ToggleSpec == InitToggle /\ [][NextToggle]_vars

(***************************************************************************)
(* Properties.                                                             *)
(***************************************************************************)
\* this transition is a run of the action `name`
Ran(name) == chain' = Append(chain, name)

\* the support step treats the message as a mood switch after completion
IsResumption(s, m) ==
  TruthyBool(s["support_completed"])
    /\ m.intent \in {Some("mood_happy"), Some("mood_sad"), Some("mood_angry")}

ContinuePrompt == Response("utter_stage_continue_question")

StageOrder == <<"common_ground", "acceptance", "analysis", "nuance">>

StageUtterance(stage) ==
  CASE stage = "common_ground" -> Response("utter_stage_common_ground")
    [] stage = "acceptance" -> Response("utter_stage_acceptance")
    [] stage = "analysis" -> Response("utter_stage_analysis")
    [] stage = "nuance" -> Response("utter_stage_nuance")

\* C1: a run of the support step on a message with text starts the dialogue
\* at common_ground when no stage is set and a reason is present, and on
\* affirm moves from each stage to exactly the next one of common_ground,
\* acceptance, analysis, nuance, emitting that stage's message and the
\* continue prompt; affirm in nuance emits the completion message and
\* proposes support_stage = unset, reason = unset, support_completed = true.
C1_StageProgression ==
  [][(Ran("action_handle_support_flow") /\ _has_user_text(msg')
        /\ ~IsResumption(slots, msg'))
     => /\ (IsNone(slots["support_stage"]) /\ TruthyText(slots["reason"]))
             => /\ slots'["support_stage"] = Some(StageOrder[1])
                /\ out' = <<StageUtterance(StageOrder[1]), ContinuePrompt>>
        /\ \A i \in 1..3 :
             (slots["support_stage"] = Some(StageOrder[i])
                /\ msg'.intent = Some("affirm"))
             => /\ slots'["support_stage"] = Some(StageOrder[i + 1])
                /\ out' = <<StageUtterance(StageOrder[i + 1]), ContinuePrompt>>
                /\ slots'["reason"] = slots["reason"]
        /\ (slots["support_stage"] = Some(StageOrder[4])
              /\ msg'.intent = Some("affirm"))
             => /\ out' = <<Response("utter_support_done_check_mood")>>
                /\ events' = <<SlotSet("support_stage", None),
                               SlotSet("reason", None),
                               SlotSet("support_completed", Some(TRUE))>>
                /\ slots'["support_stage"] = None
                /\ slots'["reason"] = None
                /\ slots'["support_completed"] = Some(TRUE)]_vars

\* the nuance stage has just been affirmed, after the three earlier stages
C1_Witness ==
  /\ chain = <<"action_handle_support_flow">>
  /\ msg.intent = Some("affirm")
  /\ out = <<Response("utter_support_done_check_mood")>>
  /\ slots["support_completed"] = Some(TRUE)
  /\ slots["support_stage"] = None

\* C2: for every set stage, a deny input sets support_stage to unset, clears
\* reason, and leaves mood unchanged.
C2_DenyPreservesMood ==
  [][(Ran("action_handle_support_flow") /\ _has_user_text(msg')
        /\ ~IsNone(slots["support_stage"]) /\ msg'.intent = Some("deny"))
     => /\ slots'["support_stage"] = None
        /\ slots'["reason"] = None
        /\ slots'["mood"] = slots["mood"]]_vars

\* C3: once last_mood is set, no step other than the conversation restart
\* returns it to unset.
C3_LastMoodPersists ==
  [][(~IsNone(slots["last_mood"]) /\ ~Ran("action_restart_conversation"))
     => ~IsNone(slots'["last_mood"])]_vars

\* C4: in every reachable state, support_stage being set implies that reason
\* is non-null.
C4_StageNeedsReason ==
  ~IsNone(slots["support_stage"]) => ~IsNone(slots["reason"])

\* the dialogue is in its last stage and still has its reason
C4_Witness ==
  /\ slots["support_stage"] = Some("nuance")
  /\ TruthyText(slots["reason"])

\* C5: support_completed = true and support_stage set never hold in the same
\* state.
C5_CompletedExcludesStage ==
  ~(TruthyBool(slots["support_completed"]) /\ ~IsNone(slots["support_stage"]))

S_my_dog_spaced == <<"m", "y", " ", "d", "o", "g">>

\* reason capture extracts a reason other than the dont_know sentinel
ReasonAccepted(s, m) ==
  /\ _has_user_text(m)
  /\ (TruthyBool(s["expect_free_reason"]) \/ m.intent = Some("pick_reason"))
  /\ TruthyText(ExtractReason(s, m))
  /\ ExtractReason(s, m) # Some(S_dont_know)

\* the follow-up of an accepted reason is about to run
AcceptedFollowup ==
  chain = <<"action_handle_pick_reason">> /\ ~IsNone(followup)

C10_IdempotentReplay ==
  [][(Ran("action_handle_support_flow") /\ _has_user_text(msg')
        /\ ~IsNone(slots["support_stage"])
        /\ msg'.intent \notin {Some("affirm"), Some("deny")}
        /\ ~IsResumption(slots, msg'))
     => /\ out' = <<StageUtterance(Val(slots["support_stage"])), ContinuePrompt>>
        /\ slots'["support_stage"] = slots["support_stage"]
        /\ slots'["reason"] = slots["reason"]
        /\ slots'["mood"] = slots["mood"]
        /\ slots' = slots
        /\ followup' = None
        /\ HandleSupportFlow_run(slots', msg') = HandleSupportFlow_run(slots, msg')]_vars

\* the analysis stage was replayed on a message that is neither affirm nor deny
C10_Witness ==
  /\ chain = <<"action_handle_support_flow">>
  /\ msg.intent = Some("nlu_fallback")
  /\ slots["support_stage"] = Some("analysis")
  /\ out = <<Response("utter_stage_analysis"), ContinuePrompt>>

(***************************************************************************)
(* Properties of the riddle session, under RiddleSpec.                     *)
(***************************************************************************)
AttemptsOf(s) == IF IsNone(s["riddle_attempts"]) THEN 0 ELSE Val(s["riddle_attempts"])

TriggerOf(s) ==
  IF IsNone(s["riddle_trigger_text"]) THEN << >> ELSE strip(Val(s["riddle_trigger_text"]))

AnswerOf(s) == IF IsNone(s["riddle_answer"]) THEN << >> ELSE Val(s["riddle_answer"])

\* the guess is neither blank nor the recorded trigger text
Validated(s, guess_text) ==
  /\ strip(guess_text) # << >>
  /\ ~(TriggerOf(s) # << >> /\ strip(guess_text) = TriggerOf(s))

\* this transition validates a guess that counts
GuessStep ==
  Ran("validate_riddle_form") /\ Validated(slots, msg'.text)

Judged == GuessIsCorrect(msg'.text, AnswerOf(slots))

\* this transition judges the guess correct, or records the third wrong guess
RetiringGuess ==
  GuessStep /\ (Judged \/ AttemptsOf(slots) + 1 = RiddleBudget)

C8_AttemptBudget ==
  [][(GuessStep /\ TruthyText(slots["riddle_answer"])
        /\ AttemptsOf(slots) + 1 \in 1..RiddleBudget)
     => LET n == AttemptsOf(slots) + 1
        IN /\ slots'["riddle_attempts"] = Some(n)
           /\ (~Judged /\ n \in {1, 2})
                => /\ out' = <<TextWith("riddle_retry", 3 - n,
                                        IF n = 2 THEN S_try ELSE S_tries)>>
                   /\ IsNone(slots'["guess"])
           /\ (~Judged /\ n = 3)
                => /\ out' = <<TextWith("riddle_reveal", 0, AnswerOf(slots))>>
                   /\ slots'["guess"] = Some(msg'.text)
           /\ Judged
                => /\ out' = <<Text("riddle_correct")>>
                   /\ slots'["guess"] = Some(msg'.text)
           /\ (AnswerOf(slots) = S_A_towel)
                => (Judged <=> msg'.text = S_towel)]_vars

\* a correct guess on the third attempt, after two wrong ones
C8_Witness ==
  /\ chain = <<"validate_riddle_form">>
  /\ out = <<Text("riddle_correct")>>
  /\ slots["riddle_attempts"] = Some(3)
  /\ slots["guess"] = Some(S_towel)

\* C9: a successful fetch sets riddle_attempts to 0; a validated guess
\* increases it by exactly 1; a blank guess or the trigger text leaves it
\* unchanged and emits no message; the counter is never negative.
C9_AttemptsCounter ==
  [][/\ (Ran("action_fetch_riddle") /\ out' # << >> /\ out'[1].id = "riddle_question")
          => slots'["riddle_attempts"] = Some(0)
     /\ GuessStep => slots'["riddle_attempts"] = Some(AttemptsOf(slots) + 1)
     /\ (Ran("validate_riddle_form") /\ ~Validated(slots, msg'.text))
          => /\ slots'["riddle_attempts"] = slots["riddle_attempts"]
             /\ out' = << >>
     /\ ~IsNone(slots'["riddle_attempts"]) => Val(slots'["riddle_attempts"]) >= 0]_vars

\* the trigger text was sent again after one counted guess and was ignored
C9_Witness ==
  /\ chain = <<"validate_riddle_form">>
  /\ msg.text = S_riddle
  /\ slots["riddle_trigger_text"] = Some(S_riddle)
  /\ slots["riddle_attempts"] = Some(1)
  /\ out = << >>

(***************************************************************************)
(* The mood resolver on drawn inputs.                                      *)
(***************************************************************************)
\* the mood an intent names, if any
IntentMood(intent) ==
  CASE intent = Some("mood_happy") -> Some(S_happy)
    [] intent = Some("mood_sad") -> Some(S_sad)
    [] intent = Some("mood_angry") -> Some(S_angry)
    [] OTHER -> None

FirstTimeIntro(k) ==
  CASE k = S_happy -> Response("utter_reflect_mood_happy")
    [] k = S_sad -> Response("utter_reflect_mood_sad")
    [] k = S_angry -> Response("utter_reflect_mood_angry")

FollowupIntro(k) ==
  CASE k = S_happy -> Response("utter_followup_mood_happy")
    [] k = S_sad -> Response("utter_followup_mood_sad")
    [] k = S_angry -> Response("utter_followup_mood_angry")

WhyPrompt == Response("utter_reason_why_you_feel_upset_question")

\* C11: for each mood m of happy, sad, angry, a run of the mood resolver on
\* a message with text and intent mood_m, with the mood slot unset and
\* support_completed not true, emits the first-time intro for m, followed by
\* the why-upset prompt exactly when m is sad or angry, and proposes
\* mood = m and last_mood = m.
C11_ResolutionByIntent ==
  [][\A k \in {S_happy, S_sad, S_angry} :
       (Ran("action_start_reflect_flow") /\ _has_user_text(msg')
          /\ IsNone(slots["mood"]) /\ ~TruthyBool(slots["support_completed"])
          /\ IntentMood(msg'.intent) = Some(k))
       => /\ out' = IF k = S_happy THEN <<FirstTimeIntro(k)>>
                    ELSE <<FirstTimeIntro(k), WhyPrompt>>
          /\ events' = <<SlotSet("mood", Some(k)), SlotSet("last_mood", Some(k))>>
          /\ slots'["mood"] = Some(k)
          /\ slots'["last_mood"] = Some(k)]_vars

\* the intent mood_angry has just been resolved for the first time
C11_Witness ==
  /\ chain = <<"action_start_reflect_flow">>
  /\ msg.intent = Some("mood_angry")
  /\ out = <<Response("utter_reflect_mood_angry"), WhyPrompt>>
  /\ events = <<SlotSet("mood", Some(S_angry)), SlotSet("last_mood", Some(S_angry))>>
  /\ slots["mood"] = Some(S_angry)

\* the resolver run of this transition resolved the mood k
ResolvedTo(k) ==
  /\ out' # << >>
  /\ out'[1] \in {FirstTimeIntro(k), FollowupIntro(k)}
  /\ slots'["mood"] = Some(k)
  /\ slots'["last_mood"] = Some(k)

\* the resolver run of this transition failed to resolve a mood
ResolutionFailed ==
  /\ out' = <<Text("clarify_mood")>>
  /\ events' = << >>
  /\ slots' = slots
  /\ followup' = None

\* C12 as stated: on a message with text the resolver uses the mood slot
\* when it holds a recognized mood, compared case-insensitively; in every
\* other case, a slot holding an unrecognized string included, it maps the
\* intent mood_happy/mood_sad/mood_angry to the mood; only when neither
\* yields a recognized mood does it fail, emitting only the clarification
\* request and proposing no state change.
C12_IntentWhenSlotUnrecognized ==
  [][(Ran("action_start_reflect_flow") /\ _has_user_text(msg'))
     => LET from_slot ==
              IF IsNone(slots["mood"]) THEN None
              ELSE IF lower(Val(slots["mood"])) \in {S_happy, S_sad, S_angry}
              THEN Some(lower(Val(slots["mood"])))
              ELSE None
            resolved == IF ~IsNone(from_slot) THEN from_slot
                        ELSE IntentMood(msg'.intent)
        IN IF ~IsNone(resolved) THEN ResolvedTo(Val(resolved))
           ELSE ResolutionFailed]_vars

\* C12 as amended: on a message with text the resolver takes the lower-cased
\* mood slot as the key whenever the slot holds a non-empty string,
\* recognized or not, and maps the intent mood_happy/mood_sad/mood_angry
\* only when the slot is unset or empty; resolution fails when the key so
\* obtained is no recognized mood, in particular whenever the slot holds an
\* unrecognized string, whatever the intent; on failure it emits only the
\* clarification request and proposes no state change.
C12_SlotBlocksIntent ==
  [][(Ran("action_start_reflect_flow") /\ _has_user_text(msg'))
     => LET key == IF ~IsNone(slots["mood"]) /\ Val(slots["mood"]) # << >>
                   THEN Some(lower(Val(slots["mood"])))
                   ELSE IntentMood(msg'.intent)
        IN IF ~IsNone(key) /\ Val(key) \in {S_happy, S_sad, S_angry}
           THEN ResolvedTo(Val(key))
           ELSE ResolutionFailed]_vars

\* the slot holds an unrecognized string and the intent names a mood: the
\* resolver has asked for clarification
C12_Witness ==
  /\ chain = <<"action_start_reflect_flow">>
  /\ slots["mood"] = Some(S_bored)
  /\ msg.intent = Some("mood_sad")
  /\ out = <<Text("clarify_mood")>>
  /\ events = << >>

\* the key the resolver works with: the lower-cased slot, else the intent
ResolvedKey(s, m) ==
  IF ~IsNone(s["mood"]) /\ Val(s["mood"]) # << >>
  THEN Some(lower(Val(s["mood"])))
  ELSE IntentMood(m.intent)

\* the events of this transition give the mood slot a value
SetsMood ==
  \E i \in DOMAIN events' :
    /\ events'[i].type = "slot"
    /\ events'[i].key = "mood"
    /\ ~IsNone(events'[i].value)

\* C13: when support_completed is true and the resolved mood is recognized,
\* a run of the resolver on a message with text emits the followup intro of
\* that mood in place of the first-time intro, followed by the why prompt
\* for sad and angry, and proposes clearing support_completed together with
\* mood = last_mood = the resolved mood; after any step that sets mood,
\* support_completed is not true.
C13_ReturningVariant ==
  [][/\ \A k \in {S_happy, S_sad, S_angry} :
          (Ran("action_start_reflect_flow") /\ _has_user_text(msg')
             /\ slots["support_completed"] = Some(TRUE)
             /\ ResolvedKey(slots, msg') = Some(k))
          => /\ out' = IF k = S_happy THEN <<FollowupIntro(k)>>
                       ELSE <<FollowupIntro(k), WhyPrompt>>
             /\ events' = <<SlotSet("support_completed", None),
                            SlotSet("mood", Some(k)),
                            SlotSet("last_mood", Some(k))>>
             /\ slots'["support_completed"] = None
             /\ slots'["mood"] = Some(k)
             /\ slots'["last_mood"] = Some(k)
     /\ SetsMood => slots'["support_completed"] # Some(TRUE)]_vars

\* a returning user whose mood slot reads "Sad" has been given the followup
\* intro and the why prompt
C13_Witness ==
  /\ chain = <<"action_start_reflect_flow">>
  /\ out = <<Response("utter_followup_mood_sad"), WhyPrompt>>
  /\ events = <<SlotSet("support_completed", None),
                SlotSet("mood", Some(S_sad)),
                SlotSet("last_mood", Some(S_sad))>>
  /\ slots["support_completed"] = None
  /\ slots["mood"] = Some(S_sad)

\* the support step has just handed the turn over to the mood resolver
ResumptionPending ==
  /\ chain = <<"action_handle_support_flow">>
  /\ followup = Some("action_start_reflect_flow")

\* C14: when support_completed is true and the intent is mood_happy,
\* mood_sad or mood_angry, a run of the support step on a message with text
\* emits nothing, proposes clearing support_stage, reason and
\* support_completed, sets mood and last_mood to the mood the intent names
\* and re-dispatches to the mood resolver; the resolver then runs on the
\* same message, speaks about the new mood, and the turn ends with
\* mood = last_mood = the new mood, support_stage unset and
\* support_completed unset.
C14_MoodSwitchResumption ==
  [][/\ \A k \in {S_happy, S_sad, S_angry} :
          (Ran("action_handle_support_flow") /\ _has_user_text(msg')
             /\ slots["support_completed"] = Some(TRUE)
             /\ IntentMood(msg'.intent) = Some(k))
          => /\ out' = << >>
             /\ events' = <<SlotSet("support_stage", None),
                            SlotSet("reason", None),
                            SlotSet("support_completed", None),
                            SlotSet("mood", Some(k)),
                            SlotSet("last_mood", Some(k)),
                            FollowupAction("action_start_reflect_flow")>>
             /\ followup' = Some("action_start_reflect_flow")
             /\ slots'["mood"] = Some(k)
             /\ slots'["last_mood"] = Some(k)
     /\ \A k \in {S_happy, S_sad, S_angry} :
          (ResumptionPending /\ IntentMood(msg.intent) = Some(k) /\ chain' # chain)
          => /\ Ran("action_start_reflect_flow")
             /\ msg' = msg
             /\ out' # << >>
             /\ out'[1] \in {FirstTimeIntro(k), FollowupIntro(k)}
             /\ followup' = None
             /\ slots'["mood"] = Some(k)
             /\ slots'["last_mood"] = Some(k)
             /\ slots'["support_stage"] = None
             /\ slots'["reason"] = None
             /\ slots'["support_completed"] = None]_vars

\* a finished dialogue about another mood was followed by "angry": the
\* resolver has spoken about anger in the same turn
C14_Witness ==
  /\ chain = <<"action_handle_support_flow", "action_start_reflect_flow">>
  /\ followup = None
  /\ msg.intent = Some("mood_angry")
  /\ out # << >>
  /\ out[1] \in {FirstTimeIntro(S_angry), FollowupIntro(S_angry)}
  /\ slots["mood"] = Some(S_angry)
  /\ slots["last_mood"] = Some(S_angry)
  /\ slots["support_stage"] = None
  /\ slots["support_completed"] = None

(***************************************************************************)
(* Phase A, reason capture and the reframe loop on drawn inputs.           *)
(***************************************************************************)
\* C15: when expect_free_reason is not true and the intent is not
\* pick_reason, a run of reason capture emits nothing and proposes no
\* mutation and no re-dispatch, whatever the text, the entities and the
\* reason slot.
C15_CaptureGate ==
  [][(Ran("action_handle_pick_reason")
        /\ slots["expect_free_reason"] # Some(TRUE)
        /\ msg'.intent # Some("pick_reason"))
     => /\ out' = << >>
        /\ events' = << >>
        /\ followup' = None
        /\ slots' = slots]_vars

\* typed text with a reason entity arrived outside the prompted window, the
\* reason slot being set, and reason capture has done nothing
C15_Witness ==
  /\ chain = <<"action_handle_pick_reason">>
  /\ slots["expect_free_reason"] = None
  /\ msg.intent = Some("nlu_fallback")
  /\ msg.text = S_my_dog
  /\ msg.entities = <<Entity("reason", S_tired)>>
  /\ slots["reason"] = Some(S_being_tired)
  /\ out = << >>
  /\ events = << >>
  /\ followup = None

\* reason capture gets past its guards on this state and message
CaptureOpen(s, m) ==
  /\ _has_user_text(m)
  /\ (TruthyBool(s["expect_free_reason"]) \/ m.intent = Some("pick_reason"))

\* C16: when the extracted value equals dont_know, reason capture emits the
\* two unknown-reason messages, proposes clearing reason, support_stage and
\* expect_free_reason, leaves mood and last_mood unchanged, and issues no
\* re-dispatch.
C16_DontKnowSentinel ==
  [][(Ran("action_handle_pick_reason") /\ CaptureOpen(slots, msg')
        /\ ExtractReason(slots, msg') = Some(S_dont_know))
     => /\ out' = <<Response("utter_reason_unknown_exercise"),
                    Response("utter_reason_unknown_ask_later")>>
        /\ events' = <<SlotSet("reason", None),
                       SlotSet("support_stage", None),
                       SlotSet("expect_free_reason", None)>>
        /\ followup' = None
        /\ slots'["reason"] = None
        /\ slots'["support_stage"] = None
        /\ slots'["expect_free_reason"] = None
        /\ slots'["mood"] = slots["mood"]
        /\ slots'["last_mood"] = slots["last_mood"]
        /\ slots'["reframe_stage"] = slots["reframe_stage"]]_vars

\* a sad user has picked "I don't know": the two messages are out, the mood
\* is still there and the turn is over
C16_Witness ==
  /\ chain = <<"action_handle_pick_reason">>
  /\ msg.intent = Some("pick_reason")
  /\ out = <<Response("utter_reason_unknown_exercise"),
             Response("utter_reason_unknown_ask_later")>>
  /\ followup = None
  /\ slots["mood"] = Some(S_sad)
  /\ slots["last_mood"] = Some(S_sad)
  /\ slots["reason"] = None
  /\ slots["support_stage"] = None

\* C17: expect_free_reason becomes true only through a run of Phase A on
\* affirm; Phase A on deny clears it; every run of reason capture that
\* extracts a value, the sentinel or a real reason, clears it, and no later
\* step of that turn sets it again; Phase A with any other intent changes
\* nothing.
C17_ExpectFreeReasonLifecycle ==
  [][/\ (slots["expect_free_reason"] # Some(TRUE)
           /\ slots'["expect_free_reason"] = Some(TRUE))
          => (Ran("action_handle_reason_response") /\ msg'.intent = Some("affirm"))
     /\ (Ran("action_handle_reason_response") /\ _has_user_text(msg')
           /\ msg'.intent = Some("affirm"))
          => slots'["expect_free_reason"] = Some(TRUE)
     /\ (Ran("action_handle_reason_response") /\ _has_user_text(msg')
           /\ msg'.intent = Some("deny"))
          => slots'["expect_free_reason"] = None
     /\ (Ran("action_handle_pick_reason") /\ CaptureOpen(slots, msg')
           /\ TruthyText(ExtractReason(slots, msg')))
          => slots'["expect_free_reason"] = None
     /\ (chain # << >> /\ Head(chain) = "action_handle_pick_reason"
           /\ chain' # << >>)
          => slots'["expect_free_reason"] = None
     /\ (Ran("action_handle_reason_response")
           /\ msg'.intent \notin {Some("affirm"), Some("deny")})
          => /\ slots' = slots
             /\ out' = << >>
             /\ events' = << >>
             /\ followup' = None]_vars

\* a reason typed as free text, which only an open prompt lets through, has
\* been captured and the prompt is closed before the follow-up runs
C17_Witness ==
  /\ chain = <<"action_handle_pick_reason">>
  /\ followup = Some("action_handle_reframe_flow")
  /\ msg.intent = Some("nlu_fallback")
  /\ msg.entities = << >>
  /\ slots["reason"] = Some(S_my_dog_spaced)
  /\ slots["expect_free_reason"] = None

\* the ids of the texts a reframe can consist of: generated, or a fallback
ReframeTextIds ==
  {"llm_reframe", "suggest_missing_someone", "suggest_body_reset",
   "suggest_school", "suggest_home_anchor", "suggest_anger",
   "suggest_grounding"}

\* C18: once reframe_stage is set, a run of the reframe step returns it to
\* unset only from wrap on affirm, which also clears reason_detail and
\* emits the completion message; wrap on deny emits a generated or fallback
\* reframe and the continue prompt and stays in wrap; on no other intent
\* than affirm does a run of the step leave the loop.
C18_ReframeTermination ==
  [][/\ (Ran("action_handle_reframe_flow") /\ ~IsNone(slots["reframe_stage"])
           /\ IsNone(slots'["reframe_stage"]))
          => /\ slots["reframe_stage"] = Some("wrap")
             /\ msg'.intent = Some("affirm")
     /\ (Ran("action_handle_reframe_flow")
           /\ slots["reframe_stage"] = Some("wrap")
           /\ msg'.intent = Some("affirm"))
          => /\ out' = <<Response("utter_support_done")>>
             /\ events' = <<SlotSet("reframe_stage", None),
                            SlotSet("reason_detail", None)>>
             /\ slots'["reframe_stage"] = None
             /\ slots'["reason_detail"] = None
             /\ followup' = None
     /\ (Ran("action_handle_reframe_flow")
           /\ slots["reframe_stage"] = Some("wrap")
           /\ msg'.intent = Some("deny"))
          => /\ Len(out') = 3
             /\ out'[2].kind = "text"
             /\ out'[2].id \in ReframeTextIds
             /\ out'[3] = ContinuePrompt
             /\ slots'["reframe_stage"] = Some("wrap")
             /\ followup' = None
     /\ (Ran("action_handle_reframe_flow") /\ ~IsNone(slots["reframe_stage"])
           /\ msg'.intent # Some("affirm"))
          => ~IsNone(slots'["reframe_stage"])]_vars

\* a deny in wrap has been answered with another reframe and the continue
\* prompt, and the loop is still in wrap
C18_Witness ==
  /\ chain = <<"action_handle_reframe_flow">>
  /\ msg.intent = Some("deny")
  /\ Len(out) = 3
  /\ out[1] = Text("another_angle")
  /\ out[3] = ContinuePrompt
  /\ slots["reframe_stage"] = Some("wrap")
  /\ followup = None

\* the reason the reframe step works with
ReframeReason(s) ==
  IF TruthyText(s["reason"]) THEN Val(s["reason"]) ELSE S_this_situation

\* C19: in wrap, on a text that is not empty and an intent that is neither
\* affirm nor deny, a run of the reframe step emits nothing, sets
\* reframe_stage = reframe and re-dispatches to itself; a run in stage
\* reframe emits the messages and proposes the mutations that the unset
\* branch gives for the same reason, text and stored detail, and returns to
\* wrap, so that reframe_stage is never reframe when a turn ends; in wrap on
\* an empty text with such an intent the step emits only the continue
\* prompt and changes no state.
C19_NewDetailHop ==
  [][/\ (Ran("action_handle_reframe_flow")
           /\ slots["reframe_stage"] = Some("wrap")
           /\ msg'.intent \notin {Some("affirm"), Some("deny")}
           /\ strip(msg'.text) # << >>)
          => /\ out' = << >>
             /\ slots'["reframe_stage"] = Some("reframe")
             /\ followup' = Some("action_handle_reframe_flow")
     /\ (Ran("action_handle_reframe_flow")
           /\ slots["reframe_stage"] = Some("reframe"))
          => /\ \E gen \in GenOutcomes :
                  LET unset == ReframeUnset(strip(msg'.text), slots["reason_detail"],
                                            ReframeReason(slots), gen)
                  IN out' = unset.out /\ events' = unset.events
             /\ slots'["reframe_stage"] = Some("wrap")
             /\ followup' = None
     /\ (Ran("action_handle_reframe_flow")
           /\ slots["reframe_stage"] = Some("wrap")
           /\ msg'.intent \notin {Some("affirm"), Some("deny")}
           /\ strip(msg'.text) = << >>)
          => /\ out' = <<ContinuePrompt>>
             /\ events' = << >>
             /\ followup' = None
             /\ slots' = slots
     /\ followup' = None => slots'["reframe_stage"] # Some("reframe")]_vars

\* new detail typed in wrap has taken the hop through stage reframe and the
\* turn has ended in wrap with a reframe and the continue prompt
C19_Witness ==
  /\ chain = <<"action_handle_reframe_flow", "action_handle_reframe_flow">>
  /\ followup = None
  /\ msg.intent = Some("nlu_fallback")
  /\ msg.text = S_my_dog
  /\ Len(out) = 2
  /\ out[2] = ContinuePrompt
  /\ slots["reframe_stage"] = Some("wrap")

\* the cleaned form of a new text: stripped, underscores turned into
\* spaces, a command payload replaced by the reason
CleanedText(text, reason) ==
  IF startswith(strip(text), <<"/">>) THEN replace_underscore(reason)
  ELSE replace_underscore(strip(text))

\* the reframe step has just taken new detail in wrap and is about to run
\* again in stage reframe
NewDetailPending ==
  /\ chain # << >>
  /\ chain[Len(chain)] = "action_handle_reframe_flow"
  /\ followup = Some("action_handle_reframe_flow")
  /\ slots["reframe_stage"] = Some("reframe")

\* C20: after a turn in wrap whose message is free text that is not empty,
\* with an intent that is neither affirm nor deny, reason_detail holds the
\* cleaned form of that text and the regenerated reframe is built from it.
C20_NewDetailStored ==
  [][(NewDetailPending /\ Ran("action_handle_reframe_flow"))
     => /\ slots'["reason_detail"]
             = Some(CleanedText(msg'.text, ReframeReason(slots)))
        /\ out'[1].id = "llm_reframe"
             => out'[1].s = ReframeReason(slots) \o <<"|">>
                              \o CleanedText(msg'.text, ReframeReason(slots))]_vars

(***************************************************************************)
(* The conversation restart and the re-dispatch chains of a turn.          *)
(***************************************************************************)
\* the restart step has just handed the turn over to the mood resolver
RestartPending ==
  /\ chain = <<"action_restart_conversation">>
  /\ followup = Some("action_start_reflect_flow")

\* the resolver runs next on the cleared state and asks for a mood
ResolverPromptsAfterRestart ==
  /\ Ran("action_start_reflect_flow")
  /\ msg' = msg
  /\ followup' = None
  /\ IF IsNone(IntentMood(msg.intent))
     THEN /\ out' = <<Text("clarify_mood")>>
          /\ slots' = EmptySlots
     ELSE /\ out'[1] = FirstTimeIntro(Val(IntentMood(msg.intent)))
          /\ slots'["mood"] = IntentMood(msg.intent)
          /\ slots'["last_mood"] = IntentMood(msg.intent)

\* C21 as stated: for every state and every message, one with empty text
\* included, the restart step emits the restart acknowledgement, has the
\* whole conversation state cleared and re-dispatches to the mood resolver,
\* which runs on the cleared state and prompts for a mood.
C21_RestartUnconditional ==
  [][/\ Ran("action_restart_conversation")
          => /\ out' = <<Response("utter_restart_ok")>>
             /\ events' = <<Restarted, FollowupAction("action_start_reflect_flow")>>
             /\ slots' = EmptySlots
             /\ followup' = Some("action_start_reflect_flow")
     /\ (RestartPending /\ chain' # chain) => ResolverPromptsAfterRestart]_vars

\* C21 as amended: for every state and every message whose text is not
\* empty after stripping, the restart step emits the restart
\* acknowledgement, has the whole conversation state cleared and
\* re-dispatches to the mood resolver, which runs on the cleared state and
\* the same message and asks for a mood, or gives the first-time intro of
\* the mood the intent names; on a message without text the restart step
\* emits nothing, changes nothing and does not re-dispatch.
C21_RestartOnText ==
  [][/\ (Ran("action_restart_conversation") /\ _has_user_text(msg'))
          => /\ out' = <<Response("utter_restart_ok")>>
             /\ events' = <<Restarted, FollowupAction("action_start_reflect_flow")>>
             /\ slots' = EmptySlots
             /\ followup' = Some("action_start_reflect_flow")
     /\ (Ran("action_restart_conversation") /\ ~_has_user_text(msg'))
          => /\ out' = << >>
             /\ events' = << >>
             /\ slots' = slots
             /\ followup' = None
     /\ (RestartPending /\ chain' # chain) => ResolverPromptsAfterRestart]_vars

\* a restart on a message with text has cleared the state and the resolver
\* has asked for a mood in the same turn
C21_Witness ==
  /\ chain = <<"action_restart_conversation", "action_start_reflect_flow">>
  /\ followup = None
  /\ _has_user_text(msg)
  /\ out = <<Text("clarify_mood")>>
  /\ slots = EmptySlots

(***************************************************************************)
(* Failing collaborators.                                                  *)
(***************************************************************************)
RiddleErrorIds ==
  {"riddle_key_missing", "riddle_unreachable", "riddle_invalid",
   "riddle_incomplete"}

\* this run of the riddle fetch did not deliver a riddle
FetchFailed ==
  /\ Ran("action_fetch_riddle")
  /\ ~(Len(out') = 1 /\ out'[1].id = "riddle_question")

\* C22: a riddle fetch that fails, in whatever failure class, emits one
\* error message and proposes no mutation, leaving every riddle slot as it
\* was; a run of the reframe step whose text generation fails proposes the
\* same mutations and the same re-dispatch as the same run with a
\* successful generation, and only emitted texts differ.
C22_NoHalfUpdate ==
  [][/\ FetchFailed
          => /\ Len(out') = 1
             /\ out'[1].kind = "text"
             /\ out'[1].id \in RiddleErrorIds
             /\ events' = << >>
             /\ slots' = slots
             /\ followup' = None
     /\ Ran("action_handle_reframe_flow")
          => LET ok == HandleReframeFlow_run(slots, msg', "text")
                 failed == HandleReframeFlow_run(slots, msg', "fallback")
             IN /\ failed.events = ok.events
                /\ events' = ok.events
                /\ Len(failed.out) = Len(ok.out)
                /\ Len(out') = Len(ok.out)
                /\ \A i \in DOMAIN ok.out :
                     failed.out[i] # ok.out[i]
                       => (failed.out[i].kind = "text" /\ ok.out[i].kind = "text")]_vars

\* C23: in every turn the chain of re-dispatches ends: a step that runs as
\* the target of a re-dispatch does not re-dispatch, except for the reframe
\* step taking new detail in wrap, which re-dispatches to itself; that run,
\* in stage reframe, does not re-dispatch; so a turn has at most two
\* follow-up runs after its first step.
C23_BoundedRedispatch ==
  [][/\ (chain # << >> /\ chain' # << >> /\ ~IsNone(followup'))
          => /\ Ran("action_handle_reframe_flow")
             /\ followup' = Some("action_handle_reframe_flow")
             /\ slots["reframe_stage"] = Some("wrap")
             /\ slots'["reframe_stage"] = Some("reframe")
     /\ (Ran("action_handle_reframe_flow")
           /\ slots["reframe_stage"] = Some("reframe"))
          => followup' = None
     /\ Len(chain') <= 3]_vars

\* the longest chain: reason capture, the reframe step taking the message
\* as new detail, and the reframe step again
C23_Witness ==
  /\ chain = <<"action_handle_pick_reason", "action_handle_reframe_flow",
               "action_handle_reframe_flow">>
  /\ followup = None
  /\ slots["reframe_stage"] = Some("wrap")

(***************************************************************************)
(* The riddle answer matcher, under MatcherSpec.                           *)
(***************************************************************************)
\* lower-cased, every character that is not alphanumeric removed
Normalized(text) == SelectSeq(lower(text), IsAlnum)

IsSubstring(a, b) ==
  \E i \in 0..(Len(b) - Len(a)) : \A k \in 1..Len(a) : b[i + k] = a[k]

\* the alphanumeric words of a lower-cased text, from position i on
RECURSIVE WordsFrom(_, _)
WordsFrom(t, i) ==
  IF i > Len(t) THEN << >>
  ELSE IF ~IsAlnum(t[i]) THEN WordsFrom(t, i + 1)
  ELSE LET ends == {j \in i..Len(t) : \A k \in i..j : IsAlnum(t[k])}
           last == CHOOSE j \in ends : \A k \in ends : k <= j
       IN <<SubSeq(t, i, last)>> \o WordsFrom(t, last + 1)

IsContentWord(w) == w \notin stop_words

ContentWords(text) == SelectSeq(WordsFrom(lower(text), 1), IsContentWord)

Elements(seq) == {seq[i] : i \in DOMAIN seq}

\* the three signals as the claim words them
SignalExact(g, a) == Normalized(g) = Normalized(a)

SignalSubstring(g, a) ==
  IsSubstring(Normalized(g), Normalized(a)) \/ IsSubstring(Normalized(a), Normalized(g))

SignalTokens(g, a) ==
  \/ ContentWords(g) = ContentWords(a)
  \/ Elements(ContentWords(g)) = Elements(ContentWords(a))

\* this transition judged the guess correct
JudgedCorrect == out' = <<Text("riddle_correct")>>

\* the first guess "towel" for the answer "A towel" is judged correct
TowelScenario ==
  (GuessStep /\ slots["riddle_answer"] = Some(S_A_towel)
     /\ AttemptsOf(slots) = 0 /\ msg'.text = S_towel)
  => (JudgedCorrect /\ slots'["riddle_attempts"] = Some(1))

\* C24 as stated: every guess that is not ignored is judged correct exactly
\* when (a) guess and answer are equal after lower-casing and removing every
\* non-alphanumeric character, or (b) one of these normalized strings is a
\* substring of the other, or (c) their lower-case alphanumeric words, stop
\* words removed, are equal as sequences or as sets; the guess "towel" for
\* the answer "A towel" is correct on attempt 1.
C24_MatcherSignals ==
  [][/\ GuessStep
          => (JudgedCorrect
                <=> \/ SignalExact(msg'.text, AnswerOf(slots))
                    \/ SignalSubstring(msg'.text, AnswerOf(slots))
                    \/ SignalTokens(msg'.text, AnswerOf(slots)))
     /\ TowelScenario]_vars

\* C24 as amended: every guess that is not ignored is judged correct exactly
\* when (a) the normalized guess and answer are both non-empty and equal, or
\* (b) both are non-empty and one is a substring of the other, or (c) the
\* content words of both are non-empty and equal as sequences or as sets;
\* the guess "towel" for the answer "A towel" is correct on attempt 1.
C24_MatcherSignalsNonEmpty ==
  [][/\ GuessStep
          => LET g == msg'.text
                 a == AnswerOf(slots)
                 both_normalized == Normalized(g) # << >> /\ Normalized(a) # << >>
                 both_words == ContentWords(g) # << >> /\ ContentWords(a) # << >>
             IN JudgedCorrect
                  <=> \/ both_normalized /\ SignalExact(g, a)
                      \/ both_normalized /\ SignalSubstring(g, a)
                      \/ both_words /\ SignalTokens(g, a)
     /\ TowelScenario]_vars

\* "dog hot" for the answer "hot dog" has been judged correct: only the
\* sets of content words agree
C24_Witness ==
  /\ chain = <<"validate_riddle_form">>
  /\ msg.text = S_dog_hot
  /\ slots["riddle_answer"] = Some(S_hot_dog)
  /\ out = <<Text("riddle_correct")>>

(***************************************************************************)
(* The resumption path and the pairing of mood and last_mood.              *)
(***************************************************************************)
\* C25: when support_completed is true and a mood intent reaches the
\* support step, the resolver that runs on its re-dispatch, after the
\* step's mutations are applied, emits the followup intro of the new mood
\* and not the first-time intro.
C25_ReturningOnResumption ==
  [][\A k \in {S_happy, S_sad, S_angry} :
       (ResumptionPending /\ IntentMood(msg.intent) = Some(k) /\ chain' # chain)
       => /\ Ran("action_start_reflect_flow")
          /\ out' # << >>
          /\ out'[1] = FollowupIntro(k)]_vars

\* mood and last_mood agree: both unset, or both the same recognized mood
MoodsPaired(s) ==
  /\ s["mood"] = s["last_mood"]
  /\ (IsNone(s["mood"]) \/ Val(s["mood"]) \in {S_happy, S_sad, S_angry})

\* the values the events es write to the slot key
Written(es, key) ==
  {es[i].value : i \in {j \in DOMAIN es : es[j].type = "slot" /\ es[j].key = key}}

\* C26: from the all-unset state, with slots changed by the steps' proposed
\* mutations only, mood and last_mood are equal in every reachable state,
\* both unset or both the same one of happy, sad, angry, and every step
\* that writes one of them writes the other with the same value.
C26_MoodPairedWithLastMood ==
  [][/\ MoodsPaired(slots)
     /\ MoodsPaired(slots')
     /\ Written(events', "mood") = Written(events', "last_mood")]_vars

\* a sad mood has been resolved and written to both slots, and a later
\* step of the dialogue has left the pair alone
C26_Witness ==
  /\ chain = <<"action_handle_support_flow">>
  /\ slots["support_stage"] = Some("acceptance")
  /\ slots["mood"] = Some(S_sad)
  /\ slots["last_mood"] = Some(S_sad)

(***************************************************************************)
(* The rephrase toggle, under ToggleSpec.                                  *)
(***************************************************************************)
\* result is lines with the block put in at one place, nothing else changed
BlockAdded(lines, block, result) ==
  \E p \in 0..Len(lines) :
    result = SubSeq(lines, 1, p) \o block \o SubSeq(lines, p + 1, Len(lines))

\* C27: for every list of lines, _insert_nlg_block returns the input lines,
\* each once and in their order, with only the nlg block added; and running
\* the toggle twice with the same flag gives the same file as running it
\* once.
C27_ToggleKeepsFile ==
  /\ BlockAdded(endpoints, nlg_block(model_group),
                _insert_nlg_block(endpoints, model_group))
  /\ \A enabled \in BOOLEAN :
       toggle(toggle(endpoints, enabled), enabled) = toggle(endpoints, enabled)

====
